---- MODULE Spec2Model ----
(***************************************************************************)
(* Model of the template manager (TemplateManager component) and of the    *)
(* proxy route handlers of the product-sheet application.                  *)
(*                                                                         *)
(* JavaScript objects are records; a key that is absent from the object    *)
(* (its value reads as `undefined`) is absent from the record's DOMAIN.    *)
(* Section objects carry a model-only key `ref`, the identity of the       *)
(* object: two entries with the same ref are the same JavaScript object,   *)
(* so an in-place assignment to one is seen through every container that   *)
(* holds it.  JSON.parse(JSON.stringify(x)) yields objects with new refs.  *)
(***************************************************************************)
EXTENDS Integers, Sequences, FiniteSets, TLC

VARIABLES
    templates,              \* useState<Template[]>([])
    activeTemplate,         \* useState<Template | null>(null)
    editedTemplate,         \* useState<Template | null>(null)
    isLoading,              \* useState<boolean>(true)
    isSaving,               \* useState<boolean>(false)
    isDeleting,             \* useState<boolean>(false)
    error,                  \* useState<string | null>(null)
    success,                \* useState<string | null>(null)
    showCreateDialog,       \* useState<boolean>(false)
    newTemplateName,        \* useState<string>("")
    newTemplateDescription, \* useState<string>("")
    baseTemplateId,         \* useState<string>("")
    toast,                  \* the toast the last step handed to toast(), or null
    mountPc,                \* position of the mount effect's fetchTemplates
    savePc,                 \* position of the handleSave invocation in flight
    deletePc,               \* position of the handleDelete invocation in flight
    clock,                  \* the value Date.now() returned last
    nEvents,                \* number of user events (clicks, inputs) handled so far
    lastOp,                 \* the handler whose step ran last
    proxy                   \* the proxy route handler invocation being served

editorVars == <<templates, activeTemplate, editedTemplate, isLoading, isSaving,
                isDeleting, error, success, showCreateDialog, newTemplateName,
                newTemplateDescription, baseTemplateId, toast, mountPc, savePc,
                deletePc, clock, nEvents, lastOp>>

vars == <<templates, activeTemplate, editedTemplate, isLoading, isSaving,
          isDeleting, error, success, showCreateDialog, newTemplateName,
          newTemplateDescription, baseTemplateId, toast, mountPc, savePc,
          deletePc, clock, nEvents, lastOp, proxy>>

-----------------------------------------------------------------------------
(* Bounds *)

\* user events (clicks, inputs) handled in one run of the component
MaxEvents == 4

-----------------------------------------------------------------------------
(* JavaScript values *)

\* null (for activeTemplate, editedTemplate, error, success, toast)
Null == [null |-> TRUE]

\* a string held in a `string | null` state cell
Msg(s) == [message |-> s]

\* String.prototype.startsWith
startsWith(s, prefix) ==
    /\ Len(s) >= Len(prefix)
    /\ SubSeq(s, 1, Len(prefix)) = prefix

\* obj.key !== undefined
Has(obj, key) == key \in DOMAIN obj

\* { ...obj, [key]: value }
Spread(obj, key, value) ==
    [k \in (DOMAIN obj) \cup {key} |-> IF k = key THEN value ELSE obj[k]]

\* obj.key || fallback, for a string-valued key (undefined and "" are falsy)
OrElse(obj, key, fallback) ==
    IF Has(obj, key) /\ obj[key] # "" THEN obj[key] ELSE fallback

\* obj.key !== undefined ? obj.key : fallback
DefinedOr(obj, key, fallback) ==
    IF Has(obj, key) THEN obj[key] ELSE fallback

\* the string a template literal makes of a number
NumToString(n) == ToString(n)

-----------------------------------------------------------------------------
(* Object identities of section objects *)

RefsOf(t) ==
    IF t = Null THEN {} ELSE {t.sections[i].ref : i \in DOMAIN t.sections}

RefsOfList(ts) == UNION {RefsOf(ts[i]) : i \in DOMAIN ts}

\* the identities of the section objects the component state can reach
UsedRefs == RefsOfList(templates) \cup RefsOf(activeTemplate) \cup RefsOf(editedTemplate)

NextFree(used) ==
    CHOOSE r \in 1..(Cardinality(used) + 1) :
        r \notin used /\ \A q \in 1..(r - 1) : q \in used

\* n identities of newly allocated objects: the n smallest ones not in use
FreshRefs(used, n) ==
    [i \in 1..n |->
        CHOOSE r \in 1..(Cardinality(used) + n) :
            r \notin used /\ Cardinality({q \in 1..r : q \notin used}) = i]

\* the section objects of `sections`, re-created as new objects
Reallocate(sections, used) ==
    LET fresh == FreshRefs(used, Len(sections))
    IN [i \in DOMAIN sections |-> Spread(sections[i], "ref", fresh[i])]

\* JSON.parse(JSON.stringify(template)): same content, new section objects
DeepCopy(t, used) == [t EXCEPT !.sections = Reallocate(t.sections, used)]

\* the identities of the section objects of a template, in list sequence
RefSeqOf(t) ==
    IF t = Null THEN <<>> ELSE [i \in DOMAIN t.sections |-> t.sections[i].ref]

RECURSIVE RefSeqOfList(_)
RefSeqOfList(ts) ==
    IF ts = <<>> THEN <<>> ELSE RefSeqOf(Head(ts)) \o RefSeqOfList(Tail(ts))

\* Object identities have no meaning beyond equality: the state names them
\* 1, 2, ... in the order in which templates, activeTemplate and
\* editedTemplate reach them, so that two heaps of the same shape are one state.
\* `order` lists the identities in that order; the new name of an object is the
\* number of distinct objects up to its first occurrence.
Named(t, order) ==
    IF t = Null THEN Null
    ELSE [t EXCEPT !.sections =
            [i \in DOMAIN t.sections |->
                [t.sections[i] EXCEPT !.ref =
                    LET r == t.sections[i].ref
                        first == CHOOSE k \in DOMAIN order :
                                     order[k] = r /\ \A j \in 1..(k - 1) : order[j] # r
                    IN Cardinality({order[j] : j \in 1..first})]]]

\* setTemplates(ts); setActiveTemplate(active); setEditedTemplate(edited)
setState(ts, active, edited) ==
    LET order == RefSeqOfList(ts) \o RefSeqOf(active) \o RefSeqOf(edited)
    IN /\ templates' = [i \in DOMAIN ts |-> Named(ts[i], order)]
       /\ activeTemplate' = Named(active, order)
       /\ editedTemplate' = Named(edited, order)

\* the content of a section, without the identity of the object
Content(s) == [k \in (DOMAIN s) \ {"ref"} |-> s[k]]

ContentOfSections(sections) == [i \in DOMAIN sections |-> Content(sections[i])]

\* the content of a template (or null), without object identities
ContentOf(t) ==
    IF t = Null THEN Null ELSE [t EXCEPT !.sections = ContentOfSections(t.sections)]

-----------------------------------------------------------------------------
(* The backend, as the component sees it: the replies it can give *)

SecIntro ==
    [id |-> "introduction", name |-> "Introduction",
     description |-> "Presentation generale", required |-> FALSE,
     default_enabled |-> TRUE, order |-> 1,
     rag_query_template |-> "presentation de {product_name}",
     prompt_template |-> "Introduire {product_name}"]

SecSpecs ==
    [id |-> "technical_specs", name |-> "Caracteristiques techniques",
     description |-> "Specifications", required |-> TRUE,
     default_enabled |-> FALSE, order |-> 2,
     rag_query_template |-> "specifications de {product_name}",
     prompt_template |-> "Lister les specifications"]

\* a stored section that has only its id: every other key is undefined
SecBare == [id |-> "notes"]

TplDefault ==
    [id |-> "technical_product", name |-> "Produit technique",
     description |-> "Template pour les produits techniques",
     sections |-> <<SecIntro, SecSpecs>>, is_default |-> TRUE, is_custom |-> FALSE]

\* a stored custom template whose orders do not start at 1
TplCustom ==
    [id |-> "custom_42", name |-> "Mon template",
     description |-> "Template personnalise",
     sections |-> <<SecSpecs, SecBare>>,
     is_default |-> FALSE, is_custom |-> TRUE]

\* the bodies GET /templates can answer with ({ templates: Template[] })
BackendLists == {<<>>, <<TplDefault>>, <<TplDefault, TplCustom>>}

\* the ids POST /templates can assign; NoId: the reply carries no id
NoId == "<no id>"
AssignedIds == {"custom_43", NoId}

\* the non-2xx statuses the backend answers with
ErrorStatuses == {500}

\* what fetch() can settle with: a 2xx response, a non-2xx response, a rejection
Ok(data) == [kind |-> "ok", data |-> data]
NotOk(status) == [kind |-> "status", status |-> status]
NetworkError == [kind |-> "network", message |-> "Failed to fetch"]

Failures == {NotOk(s) : s \in ErrorStatuses} \cup {NetworkError}

-----------------------------------------------------------------------------
(* Toasts *)

Toast(title, description, variant) ==
    [title |-> title, description |-> description, variant |-> variant]

ToastLoadError ==
    Toast("Erreur", "Impossible de charger les templates. Veuillez réessayer.", "destructive")
ToastSectionAdded ==
    Toast("Section ajoutée", "Une nouvelle section a été ajoutée au template.", "default")
ToastRequiredSection ==
    Toast("Action impossible", "Impossible de supprimer une section obligatoire.", "destructive")
ToastSectionDeleted ==
    Toast("Section supprimée", "La section a été supprimée du template.", "default")
ToastSaved ==
    Toast("Succès", "Le template a été sauvegardé avec succès.", "default")
ToastSaveError ==
    Toast("Erreur", "Impossible de sauvegarder le template. Veuillez réessayer.", "destructive")
ToastDeleted ==
    Toast("Succès", "Le template a été supprimé avec succès.", "default")
ToastDeleteError ==
    Toast("Erreur", "Impossible de supprimer le template. Veuillez réessayer.", "destructive")
ToastNameRequired ==
    Toast("Erreur", "Le nom du template est requis.", "destructive")
ToastCreateError ==
    Toast("Erreur", "Impossible de créer le template. Veuillez réessayer.", "destructive")

-----------------------------------------------------------------------------
(* Rendering: which controls exist *)

\* is_custom read as "the key is defined"
isCustomWhenDefined(t) == Has(t, "is_custom")

\* template.is_custom read as a condition (undefined is falsy)
IsCustom(t) == Has(t, "is_custom") /\ t.is_custom

\* the required flag not looked at
requiredIgnored(s) == FALSE

\* section.required read as a condition (undefined is falsy)
IsRequired(s) == Has(s, "required") /\ s.required

\* the component renders the page, not the loading skeleton
PageShown == ~isLoading

\* the editor card is rendered: activeTemplate && editedTemplate
CardShown == PageShown /\ activeTemplate # Null /\ editedTemplate # Null

Idle == [stage |-> "idle"]

-----------------------------------------------------------------------------
(* Initial state: the component constructed, its mount effect not yet run *)

InitEditor ==
    /\ templates = <<>>
    /\ activeTemplate = Null
    /\ editedTemplate = Null
    /\ isLoading = TRUE
    /\ isSaving = FALSE
    /\ isDeleting = FALSE
    /\ error = Null
    /\ success = Null
    /\ showCreateDialog = FALSE
    /\ newTemplateName = ""
    /\ newTemplateDescription = ""
    /\ baseTemplateId = ""
    /\ toast = Null
    /\ mountPc = "mounting"
    /\ savePc = Idle
    /\ deletePc = Idle
    /\ clock = 1
    /\ nEvents = 0
    /\ lastOp = "init"

-----------------------------------------------------------------------------
(* fetchTemplates *)

\* the component state fetchTemplates reads and writes
FetchState ==
    [templates |-> templates, activeTemplate |-> activeTemplate,
     editedTemplate |-> editedTemplate, error |-> error, toast |-> Null]

RECURSIVE ParseList(_, _)
\* response.json() of a template list: every section a new object
ParseList(list, used) ==
    IF list = <<>> THEN <<>>
    ELSE LET t == DeepCopy(Head(list), used)
         IN <<t>> \o ParseList(Tail(list), used \cup RefsOf(t))

\* the message of the error the try block of fetchTemplates throws
FetchErrorMessage(reply) ==
    IF reply.kind = "status"
    THEN "Erreur lors du chargement des templates: " \o NumToString(reply.status)
    ELSE reply.message

\* an empty list taken for a failed load
emptyListRefused(st, reply, noneSelected) ==
    IF reply.kind = "ok" /\ Len(reply.data) > 0
    THEN LET templatesArray ==
                 ParseList(reply.data, RefsOf(st.activeTemplate) \cup RefsOf(st.editedTemplate))
         IN IF noneSelected
            THEN [st EXCEPT !.templates = templatesArray,
                            !.activeTemplate = templatesArray[1],
                            !.editedTemplate =
                                DeepCopy(templatesArray[1], RefsOfList(templatesArray))]
            ELSE [st EXCEPT !.templates = templatesArray]
    ELSE [st EXCEPT !.error = Msg("Erreur lors du chargement des templates"),
                    !.toast = ToastLoadError]

\* a failed load emptying the list and the selection
failedLoadClearing(st, reply, noneSelected) ==
    IF reply.kind = "ok"
    THEN LET templatesArray ==
                 ParseList(reply.data, RefsOf(st.activeTemplate) \cup RefsOf(st.editedTemplate))
         IN IF Len(templatesArray) > 0 /\ noneSelected
            THEN [st EXCEPT !.templates = templatesArray,
                            !.activeTemplate = templatesArray[1],
                            !.editedTemplate =
                                DeepCopy(templatesArray[1], RefsOfList(templatesArray))]
            ELSE [st EXCEPT !.templates = templatesArray]
    ELSE [st EXCEPT !.templates = <<>>,
                    !.error = Msg("Erreur lors du chargement des templates: "
                                  \o FetchErrorMessage(reply)),
                    !.toast = ToastLoadError]

\* fetchTemplates from the settling of its request to its end; noneSelected is
\* !activeTemplate in the render whose fetchTemplates was called
fetchTemplatesSettled(st, reply, noneSelected) ==
    IF reply.kind = "ok"
    THEN LET templatesArray ==
                 ParseList(reply.data, RefsOf(st.activeTemplate) \cup RefsOf(st.editedTemplate))
         IN IF Len(templatesArray) > 0 /\ noneSelected
            THEN [st EXCEPT !.templates = templatesArray,
                            !.activeTemplate = templatesArray[1],
                            !.editedTemplate =
                                DeepCopy(templatesArray[1], RefsOfList(templatesArray))]
            ELSE [st EXCEPT !.templates = templatesArray]
    ELSE [st EXCEPT !.error = Msg("Erreur lors du chargement des templates: "
                                  \o FetchErrorMessage(reply)),
                    !.toast = ToastLoadError]

FetchReplies == {Ok(list) : list \in BackendLists} \cup Failures

\* useEffect(() => { fetchTemplates(); }, []): the request is issued
useEffect ==
    /\ mountPc = "mounting"
    /\ mountPc' = "fetching"
    /\ isLoading' = TRUE
    /\ error' = Null
    /\ lastOp' = "useEffect"
    /\ toast' = Null
    /\ nEvents' = nEvents
    /\ UNCHANGED <<templates, activeTemplate, editedTemplate, isSaving, isDeleting,
                   success, showCreateDialog, newTemplateName, newTemplateDescription,
                   baseTemplateId, savePc, deletePc, clock, proxy>>

\* the request of the mount effect settles and fetchTemplates runs to its end
fetchTemplates(reply) ==
    /\ mountPc = "fetching"
    /\ LET st == fetchTemplatesSettled(FetchState, reply, TRUE)
       IN /\ setState(st.templates, st.activeTemplate, st.editedTemplate)
          /\ error' = st.error
          /\ toast' = st.toast
    /\ isLoading' = FALSE
    /\ mountPc' = "done"
    /\ lastOp' = "fetchTemplates"
    /\ nEvents' = nEvents
    /\ UNCHANGED <<isSaving, isDeleting, success, showCreateDialog, newTemplateName,
                   newTemplateDescription, baseTemplateId, savePc, deletePc, clock,
                   proxy>>

-----------------------------------------------------------------------------
(* Selecting and editing *)

\* handleTemplateChange handing the selected template itself to setEditedTemplate
handleTemplateChangeSharing(i) ==
    /\ nEvents < MaxEvents
    /\ PageShown
    /\ i \in DOMAIN templates
    /\ setState(templates, templates[i], templates[i])
    /\ lastOp' = "handleTemplateChange"
    /\ toast' = Null
    /\ nEvents' = nEvents + 1
    /\ UNCHANGED <<isLoading, isSaving, isDeleting, error, success, showCreateDialog,
                   newTemplateName, newTemplateDescription, baseTemplateId, mountPc,
                   savePc, deletePc, clock, proxy>>

\* onClick={() => handleTemplateChange(template)} of an entry of the list
handleTemplateChange(i) ==
    /\ nEvents < MaxEvents
    /\ PageShown
    /\ i \in DOMAIN templates
    /\ setState(templates, templates[i], DeepCopy(templates[i], RefsOfList(templates)))
    /\ lastOp' = "handleTemplateChange"
    /\ toast' = Null
    /\ nEvents' = nEvents + 1
    /\ UNCHANGED <<isLoading, isSaving, isDeleting, error, success, showCreateDialog,
                   newTemplateName, newTemplateDescription, baseTemplateId, mountPc,
                   savePc, deletePc, clock, proxy>>

\* NaN: an order that is present and is no number (JSON.stringify writes it as
\* null); no input yields this value as a number
NaN == -1

Digits == <<"0", "1", "2", "3", "4", "5", "6", "7", "8", "9">>
IsDigit(c) == \E d \in DOMAIN Digits : Digits[d] = c
DigitValue(c) == (CHOOSE d \in DOMAIN Digits : Digits[d] = c) - 1

RECURSIVE parseDigits(_, _)
\* the number the leading digits of s write, after the digits read as acc
parseDigits(s, acc) ==
    IF Len(s) = 0 \/ ~IsDigit(SubSeq(s, 1, 1)) THEN acc
    ELSE parseDigits(SubSeq(s, 2, Len(s)), 10 * acc + DigitValue(SubSeq(s, 1, 1)))

\* parseInt(e.target.value) of an unsigned input
parseInt(s) ==
    IF Len(s) = 0 \/ ~IsDigit(SubSeq(s, 1, 1)) THEN NaN ELSE parseDigits(s, 0)

\* what the user leaves in the order input: a number, or nothing
OrderInputs == {"5", ""}

\* the values the inputs of a section hand to handleSectionChange
FieldValues(section, field) ==
    CASE field = "name" -> {"Titre"}
      [] field = "required" -> {~IsRequired(section)}
      [] field = "order" -> {parseInt(s) : s \in OrderInputs}

\* the fields edited: a string, a boolean, the number (description and the two
\* template strings are edited and saved as name is, default_enabled as
\* required is)
EditedFields == {"name", "required", "order"}

\* the sections of handleSectionChange's setEditedTemplate
sectionsAfterChange(sections, index, field, value, used) ==
    [sections EXCEPT ![index] =
        Spread(Spread(sections[index], field, value), "ref", NextFree(used))]

\* onChange / onCheckedChange of a section input, which is disabled unless
\* editedTemplate.is_custom
handleSectionChange(index, field, value) ==
    /\ nEvents < MaxEvents
    /\ CardShown
    /\ IsCustom(editedTemplate)
    /\ index \in DOMAIN editedTemplate.sections
    /\ setState(templates, activeTemplate,
                [editedTemplate EXCEPT !.sections =
                    sectionsAfterChange(editedTemplate.sections, index, field, value,
                                        UsedRefs)])
    /\ nEvents' = nEvents + 1
    /\ lastOp' = "handleSectionChange"
    /\ toast' = Null
    /\ UNCHANGED <<isLoading, isSaving, isDeleting, error, success, showCreateDialog,
                   newTemplateName, newTemplateDescription, baseTemplateId, mountPc,
                   savePc, deletePc, clock, proxy>>

TemplateFieldValues(field) ==
    IF field = "name" THEN {"Fiche courte"} ELSE {"Template abrege"}

\* onChange of the template's name or description input, which is disabled
\* unless editedTemplate.is_custom: setEditedTemplate({...editedTemplate, [field]: value})
setEditedTemplateField(field, value) ==
    /\ nEvents < MaxEvents
    /\ CardShown
    /\ IsCustom(editedTemplate)
    /\ editedTemplate' = Spread(editedTemplate, field, value)
    /\ nEvents' = nEvents + 1
    /\ lastOp' = "setEditedTemplate"
    /\ toast' = Null
    /\ UNCHANGED <<templates, activeTemplate, isLoading, isSaving, isDeleting, error,
                   success, showCreateDialog, newTemplateName, newTemplateDescription,
                   baseTemplateId, mountPc, savePc, deletePc, clock, proxy>>

\* the section addSection builds
newSection(sections, now) ==
    [id |-> "section_" \o NumToString(now),
     name |-> "Nouvelle section",
     description |-> "Description de la nouvelle section",
     required |-> FALSE,
     default_enabled |-> TRUE,
     order |-> Len(sections) + 1,
     rag_query_template |-> "informations sur {product_name} dans la catégorie {product_category}",
     prompt_template |-> "Générer une section sur {product_name} en utilisant les informations suivantes: {client_data_context}"]

\* the sections of addSection's setEditedTemplate
sectionsAfterAdd(sections, now, used) ==
    Append(sections, Spread(newSection(sections, now), "ref", NextFree(used)))

\* addSection, called when Date.now() is `now`: the value it returned last, or a
\* later one
addSection(now) ==
    /\ nEvents < MaxEvents
    /\ CardShown
    /\ now \in {clock, clock + 1}
    /\ clock' = now
    /\ IF ~IsCustom(editedTemplate)
       THEN /\ toast' = Null
            /\ UNCHANGED <<templates, activeTemplate, editedTemplate>>
       ELSE /\ setState(templates, activeTemplate,
                        [editedTemplate EXCEPT !.sections =
                            sectionsAfterAdd(editedTemplate.sections, now, UsedRefs)])
            /\ toast' = ToastSectionAdded
    /\ lastOp' = "addSection"
    /\ nEvents' = nEvents + 1
    /\ UNCHANGED <<isLoading, isSaving, isDeleting, error, success, showCreateDialog,
                   newTemplateName, newTemplateDescription, baseTemplateId, mountPc,
                   savePc, deletePc, proxy>>

\* updatedSections after splice(index, 1)
splice(sections, index) ==
    [k \in 1..(Len(sections) - 1) |-> IF k < index THEN sections[k] ELSE sections[k + 1]]

\* "section.order = idx + 1" for every object of `kept`, seen through `sections`:
\* an entry of `sections` that is one of the objects of `kept` shows the new order
renumbered(sections, kept) ==
    [i \in DOMAIN sections |->
        IF \E k \in DOMAIN kept : kept[k].ref = sections[i].ref
        THEN Spread(sections[i], "order",
                    CHOOSE k \in DOMAIN kept : kept[k].ref = sections[i].ref)
        ELSE sections[i]]

\* a template (or null) after the in-place renumbering of the objects of `kept`
seenAfterRenumbering(t, kept) ==
    IF t = Null THEN Null ELSE [t EXCEPT !.sections = renumbered(t.sections, kept)]

\* deleteSection(index); index counts from 1 here, from 0 in the code
deleteSection(index) ==
    /\ nEvents < MaxEvents
    /\ CardShown
    /\ index \in DOMAIN editedTemplate.sections
    /\ IF ~IsCustom(editedTemplate)
       THEN /\ toast' = Null
            /\ UNCHANGED <<templates, activeTemplate, editedTemplate>>
       ELSE IF IsRequired(editedTemplate.sections[index])
       THEN /\ toast' = ToastRequiredSection
            /\ UNCHANGED <<templates, activeTemplate, editedTemplate>>
       ELSE LET updatedSections == splice(editedTemplate.sections, index)
            IN /\ setState([i \in DOMAIN templates |->
                               seenAfterRenumbering(templates[i], updatedSections)],
                           seenAfterRenumbering(activeTemplate, updatedSections),
                           [editedTemplate EXCEPT !.sections =
                               renumbered(updatedSections, updatedSections)])
               /\ toast' = ToastSectionDeleted
    /\ lastOp' = "deleteSection"
    /\ nEvents' = nEvents + 1
    /\ UNCHANGED <<isLoading, isSaving, isDeleting, error, success, showCreateDialog,
                   newTemplateName, newTemplateDescription, baseTemplateId, mountPc,
                   savePc, deletePc, clock, proxy>>

\* a duplicate that spreads activeTemplate instead of parsing a JSON copy: its
\* sections are the section objects of activeTemplate
duplicatedSharingSections(used) ==
    [Spread(Spread(activeTemplate, "id", "new_template"), "is_custom", TRUE)
        EXCEPT !.name = "Copie de " \o activeTemplate.name]

\* `copy` with the placeholder id and the flag of the template it was made from
duplicatedKeepingFlag(used) ==
    LET parsed == DeepCopy(editedTemplate, used)
    IN [Spread(parsed, "id", "new_template")
           EXCEPT !.name = "Copie de " \o parsed.name]

\* `copy` of the duplicate button's onClick
duplicatedTemplate(used) ==
    LET parsed == DeepCopy(editedTemplate, used)
    IN [Spread(Spread(parsed, "id", "new_template"), "is_custom", TRUE)
           EXCEPT !.name = "Copie de " \o parsed.name]

\* onClick of "Dupliquer ce template", rendered when !editedTemplate.is_custom
duplicateTemplate ==
    /\ nEvents < MaxEvents
    /\ CardShown
    /\ ~IsCustom(editedTemplate)
    /\ LET copy == duplicatedTemplate(UsedRefs)
       IN setState(templates, copy, copy)
    /\ lastOp' = "duplicateTemplate"
    /\ toast' = Null
    /\ nEvents' = nEvents + 1
    /\ UNCHANGED <<isLoading, isSaving, isDeleting, error, success, showCreateDialog,
                   newTemplateName, newTemplateDescription, baseTemplateId, mountPc,
                   savePc, deletePc, clock, proxy>>

-----------------------------------------------------------------------------
(* handleSave *)

\* the keys of `keys` that obj defines, as JSON.stringify keeps them
Pick(obj, keys) == [k \in (DOMAIN obj) \cap keys |-> obj[k]]

\* the section sent as it is
sectionAsIs(section) == Content(section)

\* one element of validatedSections
validatedSection(section) ==
    LET filled ==
            [name |-> OrElse(section, "name", "Section sans nom"),
             description |-> OrElse(section, "description", "Description de la section"),
             required |-> DefinedOr(section, "required", FALSE),
             default_enabled |-> DefinedOr(section, "default_enabled", TRUE),
             order |-> DefinedOr(section, "order", 0),
             rag_query_template |->
                 OrElse(section, "rag_query_template",
                        "informations sur {product_name} dans la catégorie {product_category}"),
             prompt_template |->
                 OrElse(section, "prompt_template",
                        "Générer une section sur {product_name} en utilisant les informations suivantes: {client_data_context}")]
    IN IF Has(section, "id") THEN Spread(filled, "id", section.id) ELSE filled

validatedSections(sections) == [i \in DOMAIN sections |-> validatedSection(sections[i])]

\* the decision taken from the is_custom flag
isNewTemplateByFlag(t) == ~IsCustom(t)

\* !editedTemplate.id || !editedTemplate.id.startsWith('custom_')
isNewTemplate(t) ==
    \/ ~Has(t, "id")
    \/ t.id = ""
    \/ ~startsWith(t.id, "custom_")

TemplatesUrl == "http://127.0.0.1:8050/templates"

\* the request of a save that always creates
saveRequestAlwaysCreate(t) ==
    [url |-> TemplatesUrl,
     method |-> "POST",
     body |-> Spread(Pick(t, {"name", "description", "is_default"}),
                     "sections", validatedSections(t.sections))]

\* the request handleSave hands to fetch()
saveRequest(t) ==
    [url |-> IF ~isNewTemplate(t) THEN TemplatesUrl \o "/" \o t.id ELSE TemplatesUrl,
     method |-> IF ~isNewTemplate(t) THEN "PUT" ELSE "POST",
     body |-> Spread(Pick(t, {"name", "description", "is_default"}),
                     "sections", validatedSections(t.sections))]

\* handleSave behind a "Sauvegarder" button that is never disabled
handleSaveNeverDisabled ==
    /\ nEvents < MaxEvents
    /\ CardShown
    /\ isSaving' = TRUE
    /\ error' = Null
    /\ success' = Null
    /\ savePc' = [stage |-> "request", request |-> saveRequest(editedTemplate),
                  noneSelected |-> (activeTemplate = Null)]
    /\ lastOp' = "handleSave"
    /\ toast' = Null
    /\ nEvents' = nEvents + 1
    /\ UNCHANGED <<templates, activeTemplate, editedTemplate, isLoading, isDeleting,
                   showCreateDialog, newTemplateName, newTemplateDescription,
                   baseTemplateId, mountPc, deletePc, clock, proxy>>

\* onClick of "Sauvegarder" (disabled while isSaving), up to the fetch() call
handleSave ==
    /\ nEvents < MaxEvents
    /\ CardShown
    /\ ~isSaving
    /\ isSaving' = TRUE
    /\ error' = Null
    /\ success' = Null
    /\ savePc' = [stage |-> "request", request |-> saveRequest(editedTemplate),
                  noneSelected |-> (activeTemplate = Null)]
    /\ lastOp' = "handleSave"
    /\ toast' = Null
    /\ nEvents' = nEvents + 1
    /\ UNCHANGED <<templates, activeTemplate, editedTemplate, isLoading, isDeleting,
                   showCreateDialog, newTemplateName, newTemplateDescription,
                   baseTemplateId, mountPc, deletePc, clock, proxy>>

\* the template a 2xx reply to the request carries: what was sent, under the id
\* of the URL (PUT) or under the id the backend assigns (POST)
savedReplies(request) ==
    IF request.method = "PUT"
    THEN {Ok(Spread(request.body, "id",
                    SubSeq(request.url, Len(TemplatesUrl) + 2, Len(request.url))))}
    ELSE {Ok(IF id = NoId THEN request.body ELSE Spread(request.body, "id", id)) :
             id \in AssignedIds}

\* savedTemplate left as the backend sent it
savedAsReplied(savedTemplate) == savedTemplate

\* savedTemplate once "savedTemplate.is_custom = isCustomTemplate" has run
withIsCustom(savedTemplate) ==
    IF Has(savedTemplate, "id") /\ savedTemplate.id # ""
    THEN Spread(savedTemplate, "is_custom", startsWith(savedTemplate.id, "custom_"))
    ELSE [k \in (DOMAIN savedTemplate) \ {"is_custom"} |-> savedTemplate[k]]

\* the message of the error the try block of handleSave throws
saveErrorMessage(reply) ==
    IF reply.kind = "status"
    THEN "Erreur lors de la sauvegarde: " \o NumToString(reply.status)
         \o " - " \o "Internal Server Error"
    ELSE reply.message

\* setIsSaving(false) at the end of the try block instead of in finally
handleSaveSettledWithoutFinally(reply) ==
    /\ savePc.stage = "request"
    /\ IF reply.kind = "ok"
       THEN /\ savePc' = [stage |-> "refetch", request |-> savePc.request,
                          savedTemplate |-> withIsCustom(reply.data),
                          noneSelected |-> savePc.noneSelected]
            /\ isLoading' = TRUE
            /\ error' = Null
            /\ toast' = Null
            /\ UNCHANGED isSaving
       ELSE /\ error' = Msg("Erreur lors de la sauvegarde: " \o saveErrorMessage(reply))
            /\ toast' = ToastSaveError
            /\ savePc' = Idle
            /\ UNCHANGED <<isLoading, isSaving>>
    /\ lastOp' = "handleSaveSettled"
    /\ nEvents' = nEvents
    /\ UNCHANGED <<templates, activeTemplate, editedTemplate, isDeleting, success,
                   showCreateDialog, newTemplateName, newTemplateDescription,
                   baseTemplateId, mountPc, deletePc, clock, proxy>>

\* the request of handleSave settles: on a failure the catch and finally blocks
\* run; on a 2xx reply the handler goes on to "await fetchTemplates()"
handleSaveSettled(reply) ==
    /\ savePc.stage = "request"
    /\ IF reply.kind = "ok"
       THEN /\ savePc' = [stage |-> "refetch", request |-> savePc.request,
                          savedTemplate |-> withIsCustom(reply.data),
                          noneSelected |-> savePc.noneSelected]
            /\ isLoading' = TRUE
            /\ error' = Null
            /\ toast' = Null
            /\ UNCHANGED isSaving
       ELSE /\ error' = Msg("Erreur lors de la sauvegarde: " \o saveErrorMessage(reply))
            /\ toast' = ToastSaveError
            /\ isSaving' = FALSE
            /\ savePc' = Idle
            /\ UNCHANGED isLoading
    /\ lastOp' = "handleSaveSettled"
    /\ nEvents' = nEvents
    /\ UNCHANGED <<templates, activeTemplate, editedTemplate, isDeleting, success,
                   showCreateDialog, newTemplateName, newTemplateDescription,
                   baseTemplateId, mountPc, deletePc, clock, proxy>>

\* the buffer is no longer the one the request of the save in flight was built
\* from: the user has selected or edited since
bufferChangedInFlight ==
    \/ editedTemplate = Null
    \/ saveRequest(editedTemplate) # savePc.request

\* the continuation after "await fetchTemplates()" leaving the buffer as the user
\* has it now
handleSaveRefetchedKeepingBuffer(reply) ==
    /\ savePc.stage = "refetch"
    /\ LET st == fetchTemplatesSettled(FetchState, reply, savePc.noneSelected)
           savedTemplate ==
               DeepCopy(savePc.savedTemplate, RefsOfList(st.templates) \cup RefsOf(st.editedTemplate))
       IN /\ setState(st.templates, savedTemplate,
                      IF bufferChangedInFlight THEN st.editedTemplate
                      ELSE DeepCopy(savedTemplate,
                                    RefsOfList(st.templates) \cup RefsOf(savedTemplate)))
          /\ error' = st.error
    /\ isLoading' = FALSE
    /\ success' = Msg("Template sauvegardé avec succès")
    /\ toast' = ToastSaved
    /\ isSaving' = FALSE
    /\ savePc' = Idle
    /\ lastOp' = IF bufferChangedInFlight THEN "handleSaveRefetched over a changed buffer"
                 ELSE "handleSaveRefetched"
    /\ nEvents' = nEvents
    /\ UNCHANGED <<isDeleting, showCreateDialog, newTemplateName,
                   newTemplateDescription, baseTemplateId, mountPc, deletePc, clock,
                   proxy>>

\* the fetchTemplates call of handleSave ends and handleSave runs to its end
handleSaveRefetched(reply) ==
    /\ savePc.stage = "refetch"
    /\ \E st \in {fetchTemplatesSettled(FetchState, reply, savePc.noneSelected)} :
       \E savedTemplate \in {DeepCopy(savePc.savedTemplate, RefsOfList(st.templates))} :
       \E copy \in {DeepCopy(savedTemplate,
                             RefsOfList(st.templates) \cup RefsOf(savedTemplate))} :
          /\ setState(st.templates, savedTemplate, copy)
          /\ error' = st.error
    /\ isLoading' = FALSE
    /\ success' = Msg("Template sauvegardé avec succès")
    /\ toast' = ToastSaved
    /\ isSaving' = FALSE
    /\ savePc' = Idle
    /\ lastOp' = IF bufferChangedInFlight THEN "handleSaveRefetched over a changed buffer"
                 ELSE "handleSaveRefetched"
    /\ nEvents' = nEvents
    /\ UNCHANGED <<isDeleting, showCreateDialog, newTemplateName,
                   newTemplateDescription, baseTemplateId, mountPc, deletePc, clock,
                   proxy>>

-----------------------------------------------------------------------------
(* handleDelete *)

\* onClick of "Supprimer" (disabled while isDeleting), up to the fetch() call
handleDelete ==
    /\ nEvents < MaxEvents
    /\ CardShown
    /\ ~isDeleting
    /\ IF ~IsCustom(activeTemplate)
       THEN UNCHANGED <<isDeleting, error, success, deletePc>>
       ELSE /\ isDeleting' = TRUE
            /\ error' = Null
            /\ success' = Null
            /\ deletePc' = [stage |-> "request",
                            request |-> [url |-> TemplatesUrl \o "/" \o activeTemplate.id,
                                         method |-> "DELETE"],
                            noneSelected |-> (activeTemplate = Null)]
    /\ lastOp' = "handleDelete"
    /\ toast' = Null
    /\ nEvents' = nEvents + 1
    /\ UNCHANGED <<templates, activeTemplate, editedTemplate, isLoading, isSaving,
                   showCreateDialog, newTemplateName, newTemplateDescription,
                   baseTemplateId, mountPc, savePc, clock, proxy>>

\* the message of the error the try block of handleDelete throws
deleteErrorMessage(reply) ==
    IF reply.kind = "status"
    THEN "Erreur lors de la suppression: " \o NumToString(reply.status)
    ELSE reply.message

DeleteReplies == {Ok("")} \cup Failures

\* setIsDeleting(false) at the end of the try block instead of in finally
handleDeleteSettledWithoutFinally(reply) ==
    /\ deletePc.stage = "request"
    /\ IF reply.kind = "ok"
       THEN /\ deletePc' = [stage |-> "refetch", noneSelected |-> deletePc.noneSelected]
            /\ isLoading' = TRUE
            /\ error' = Null
            /\ toast' = Null
       ELSE /\ error' = Msg("Erreur lors de la suppression: " \o deleteErrorMessage(reply))
            /\ toast' = ToastDeleteError
            /\ deletePc' = Idle
            /\ UNCHANGED isLoading
    /\ lastOp' = "handleDeleteSettled"
    /\ nEvents' = nEvents
    /\ UNCHANGED <<templates, activeTemplate, editedTemplate, isSaving, isDeleting, success,
                   showCreateDialog, newTemplateName, newTemplateDescription,
                   baseTemplateId, mountPc, savePc, clock, proxy>>

\* the request of handleDelete settles
handleDeleteSettled(reply) ==
    /\ deletePc.stage = "request"
    /\ IF reply.kind = "ok"
       THEN /\ deletePc' = [stage |-> "refetch", noneSelected |-> deletePc.noneSelected]
            /\ isLoading' = TRUE
            /\ error' = Null
            /\ toast' = Null
            /\ UNCHANGED isDeleting
       ELSE /\ error' = Msg("Erreur lors de la suppression: " \o deleteErrorMessage(reply))
            /\ toast' = ToastDeleteError
            /\ isDeleting' = FALSE
            /\ deletePc' = Idle
            /\ UNCHANGED isLoading
    /\ lastOp' = "handleDeleteSettled"
    /\ nEvents' = nEvents
    /\ UNCHANGED <<templates, activeTemplate, editedTemplate, isSaving, success,
                   showCreateDialog, newTemplateName, newTemplateDescription,
                   baseTemplateId, mountPc, savePc, clock, proxy>>

\* the continuation after "await fetchTemplates()" without the reset of the
\* selection
handleDeleteRefetchedKeepingSelection(reply) ==
    /\ deletePc.stage = "refetch"
    /\ LET st == fetchTemplatesSettled(FetchState, reply, deletePc.noneSelected)
       IN /\ setState(st.templates, st.activeTemplate, st.editedTemplate)
          /\ error' = st.error
    /\ isLoading' = FALSE
    /\ success' = Msg("Template supprimé avec succès")
    /\ toast' = ToastDeleted
    /\ isDeleting' = FALSE
    /\ deletePc' = Idle
    /\ lastOp' = "handleDeleteRefetched"
    /\ nEvents' = nEvents
    /\ UNCHANGED <<isSaving, showCreateDialog, newTemplateName, newTemplateDescription,
                   baseTemplateId, mountPc, savePc, clock, proxy>>

\* the fetchTemplates call of handleDelete ends and handleDelete runs to its end
handleDeleteRefetched(reply) ==
    /\ deletePc.stage = "refetch"
    /\ LET st == fetchTemplatesSettled(FetchState, reply, deletePc.noneSelected)
       IN /\ setState(st.templates, Null, Null)
          /\ error' = st.error
    /\ isLoading' = FALSE
    /\ success' = Msg("Template supprimé avec succès")
    /\ toast' = ToastDeleted
    /\ isDeleting' = FALSE
    /\ deletePc' = Idle
    /\ lastOp' = "handleDeleteRefetched"
    /\ nEvents' = nEvents
    /\ UNCHANGED <<isSaving, showCreateDialog, newTemplateName, newTemplateDescription,
                   baseTemplateId, mountPc, savePc, clock, proxy>>

-----------------------------------------------------------------------------
(* The creation dialog and handleCreateTemplate *)

\* onOpenChange of the dialog: setShowCreateDialog(open)
setShowCreateDialog(open) ==
    /\ nEvents < MaxEvents
    /\ PageShown
    /\ showCreateDialog # open
    /\ showCreateDialog' = open
    /\ lastOp' = "setShowCreateDialog"
    /\ toast' = Null
    /\ nEvents' = nEvents + 1
    /\ UNCHANGED <<templates, activeTemplate, editedTemplate, isLoading, isSaving,
                   isDeleting, error, success, newTemplateName, newTemplateDescription,
                   baseTemplateId, mountPc, savePc, deletePc, clock, proxy>>

\* what the user types in the dialog's name and description inputs
NameInputs == {"", " ", "Fiche"}
DescriptionInputs == {"", "Courte"}

\* the values of the <option>s of the base template <select>
BaseTemplateOptions == {""} \cup {templates[i].id : i \in DOMAIN templates}

\* onChange of the dialog's name input
setNewTemplateName(value) ==
    /\ nEvents < MaxEvents
    /\ PageShown
    /\ showCreateDialog
    /\ value # newTemplateName
    /\ newTemplateName' = value
    /\ nEvents' = nEvents + 1
    /\ lastOp' = "setNewTemplateName"
    /\ toast' = Null
    /\ UNCHANGED <<templates, activeTemplate, editedTemplate, isLoading, isSaving,
                   isDeleting, error, success, showCreateDialog,
                   newTemplateDescription, baseTemplateId, mountPc, savePc, deletePc,
                   clock, proxy>>

\* onChange of the dialog's description input
setNewTemplateDescription(value) ==
    /\ nEvents < MaxEvents
    /\ PageShown
    /\ showCreateDialog
    /\ value # newTemplateDescription
    /\ newTemplateDescription' = value
    /\ nEvents' = nEvents + 1
    /\ lastOp' = "setNewTemplateDescription"
    /\ toast' = Null
    /\ UNCHANGED <<templates, activeTemplate, editedTemplate, isLoading, isSaving,
                   isDeleting, error, success, showCreateDialog, newTemplateName,
                   baseTemplateId, mountPc, savePc, deletePc, clock, proxy>>

\* onChange of the dialog's base template <select>
setBaseTemplateId(value) ==
    /\ nEvents < MaxEvents
    /\ PageShown
    /\ showCreateDialog
    /\ value # baseTemplateId
    /\ baseTemplateId' = value
    /\ nEvents' = nEvents + 1
    /\ lastOp' = "setBaseTemplateId"
    /\ toast' = Null
    /\ UNCHANGED <<templates, activeTemplate, editedTemplate, isLoading, isSaving,
                   isDeleting, error, success, showCreateDialog, newTemplateName,
                   newTemplateDescription, mountPc, savePc, deletePc, clock, proxy>>

RECURSIVE trimStart(_)
trimStart(s) ==
    IF Len(s) > 0 /\ SubSeq(s, 1, 1) = " " THEN trimStart(SubSeq(s, 2, Len(s))) ELSE s

RECURSIVE trimEnd(_)
trimEnd(s) ==
    IF Len(s) > 0 /\ SubSeq(s, Len(s), Len(s)) = " "
    THEN trimEnd(SubSeq(s, 1, Len(s) - 1))
    ELSE s

\* the string taken as it is
untrimmed(s) == s

\* String.prototype.trim
trim(s) == trimEnd(trimStart(s))

\* templates.find(t => t.id === baseTemplateId) || templates[0], as the index
\* of the template in the list (0: undefined)
baseTemplateIndex ==
    IF \E i \in DOMAIN templates : Has(templates[i], "id") /\ templates[i].id = baseTemplateId
    THEN CHOOSE i \in DOMAIN templates :
             /\ Has(templates[i], "id") /\ templates[i].id = baseTemplateId
             /\ \A j \in 1..(i - 1) :
                    ~(Has(templates[j], "id") /\ templates[j].id = baseTemplateId)
    ELSE IF Len(templates) > 0 THEN 1 ELSE 0

\* templateWithCustomProps holding the base template's own sections array
templateSharingSections(baseTemplate, used) ==
    [name |-> newTemplateName,
     description |->
         IF newTemplateDescription # "" THEN newTemplateDescription
         ELSE "Template personnalisé basé sur " \o baseTemplate.name,
     sections |-> baseTemplate.sections,
     is_default |-> FALSE,
     id |-> "new_template",
     is_custom |-> TRUE]

\* templateWithCustomProps
templateWithCustomProps(baseTemplate, used) ==
    [name |-> newTemplateName,
     description |->
         IF newTemplateDescription # "" THEN newTemplateDescription
         ELSE "Template personnalisé basé sur " \o baseTemplate.name,
     sections |-> Reallocate(baseTemplate.sections, used),
     is_default |-> FALSE,
     id |-> "new_template",
     is_custom |-> TRUE]

\* the message of the TypeError thrown when baseTemplate is undefined
createErrorMessage ==
    IF newTemplateDescription # ""
    THEN "Cannot read properties of undefined (reading 'sections')"
    ELSE "Cannot read properties of undefined (reading 'name')"

\* onClick of the dialog's "Créer" button
handleCreateTemplate ==
    /\ nEvents < MaxEvents
    /\ PageShown
    /\ showCreateDialog
    /\ IF trim(newTemplateName) = ""
       THEN /\ toast' = ToastNameRequired
            /\ UNCHANGED <<templates, activeTemplate, editedTemplate, error, showCreateDialog,
                           newTemplateName, newTemplateDescription, baseTemplateId>>
       ELSE IF baseTemplateIndex = 0
       THEN /\ error' = Msg("Erreur lors de la création du template: " \o createErrorMessage)
            /\ toast' = ToastCreateError
            /\ UNCHANGED <<templates, activeTemplate, editedTemplate, showCreateDialog,
                           newTemplateName, newTemplateDescription, baseTemplateId>>
       ELSE LET created ==
                    templateWithCustomProps(templates[baseTemplateIndex], UsedRefs)
            IN /\ showCreateDialog' = FALSE
               /\ setState(templates, created, created)
               /\ newTemplateName' = ""
               /\ newTemplateDescription' = ""
               /\ baseTemplateId' = ""
               /\ toast' = Null
               /\ UNCHANGED error
    /\ lastOp' = "handleCreateTemplate"
    /\ nEvents' = nEvents + 1
    /\ UNCHANGED <<isLoading, isSaving, isDeleting, success, mountPc, savePc, deletePc,
                   clock, proxy>>

-----------------------------------------------------------------------------
(* The proxy route handlers *)

\* const API_URL = process.env.NEXT_PUBLIC_API_URL || <default>
ApiUrlLocal == "http://127.0.0.1:8050"
ApiUrlDocker == "http://rfp-backend:8050"

\* the route handlers: the axios call each makes and the `error` text of its
\* catch block
ProxyTemplateGET ==
    [handler |-> "proxy-template GET", method |-> "GET",
     url |-> ApiUrlLocal \o "/templates",
     error |-> "Erreur lors de la récupération des templates"]
ProxyTemplatePOST ==
    [handler |-> "proxy-template POST", method |-> "POST",
     url |-> ApiUrlLocal \o "/templates/generate",
     error |-> "Erreur lors de la génération avec template"]
ProxyGeneratePOST ==
    [handler |-> "proxy-generate POST", method |-> "POST",
     url |-> ApiUrlLocal \o "/generate-product-description",
     error |-> "Erreur lors de la génération de la description"]
ProxyRagPOST ==
    [handler |-> "proxy-rag POST", method |-> "POST",
     url |-> ApiUrlLocal \o "/generate-with-rag",
     error |-> "Erreur lors de la génération avec RAG"]
ProxyRagDockerPOST ==
    [handler |-> "proxy-rag POST (docker)", method |-> "POST",
     url |-> ApiUrlDocker \o "/generate-with-rag",
     error |-> "Erreur lors de la génération avec RAG"]

PostHandlers == {ProxyTemplatePOST, ProxyGeneratePOST, ProxyRagPOST, ProxyRagDockerPOST}

\* an Error object: error.message and error.stack
Thrown(name, message) ==
    [message |-> message, stack |-> name \o ": " \o message \o "\n    at <anonymous>"]

\* A value read from JSON (request.json(), response.data) is written as its
\* JSON text: JSON.stringify of the value gives that text back.

\* what `await request.json()` settles with: the parsed body, or a SyntaxError
Parsed(data) == [kind |-> "parsed", data |-> data]
Unparsable(message) == [kind |-> "unparsable", error |-> Thrown("SyntaxError", message)]

IncomingBodies ==
    {Parsed("{\"product_name\":\"Perceuse\",\"template_id\":\"technical_product\"}"),
     Parsed("{\"product_name\":\"Perceuse\"}"),
     Parsed("null"),
     Unparsable("Unexpected end of JSON input"),
     Unparsable("Unexpected token 'o', \"{oops\" is not valid JSON")}

\* what the backend answers: a status and the body axios parsed (response.data)
SuccessStatuses == {200, 201, 204}
FailureStatuses == {404, 500}
\* (an empty body reads as the empty string, whose JSON text is "")
BackendBodies == {"{\"description\":\"Une perceuse robuste\"}", "\"\""}
Answer(status, data) == [kind |-> "answer", status |-> status, data |-> data]
TransportError(message) == [kind |-> "transport", message |-> message]

BackendSettlements ==
    {Answer(status, data) : status \in SuccessStatuses, data \in BackendBodies}
    \cup {Answer(status, "{\"detail\":\"Not Found\"}") : status \in FailureStatuses}
    \cup {TransportError("connect ECONNREFUSED 127.0.0.1:8050"),
          TransportError("getaddrinfo ENOTFOUND rfp-backend")}

\* validateStatus of axios: a status from 200 to 299 resolves the call
validateStatus(status) == status >= 200 /\ status < 300

\* the error a settled axios call rejects with
axiosError(settlement) ==
    IF settlement.kind = "answer"
    THEN Thrown("AxiosError",
                "Request failed with status code " \o NumToString(settlement.status))
    ELSE Thrown("Error", settlement.message)

\* NextResponse.json(body, init): init.status, or 200 when no init is given
NextResponseJson(body, init) ==
    [status |-> IF Has(init, "status") THEN init.status ELSE 200, body |-> body]

\* the backend's status handed on
okResponseWithStatus(response) ==
    NextResponseJson(response.data, [status |-> response.status])

\* the try block's "return NextResponse.json(response.data)"
okResponse(response) == NextResponseJson(response.data, [headers |-> <<>>])

\* a catch block that does not report the error's message
catchResponseWithoutMessage(handler, e) ==
    NextResponseJson([error |-> handler.error, details |-> handler.error, stack |-> e.stack],
                     [status |-> 500])

\* the catch block's return
catchResponse(handler, e) ==
    NextResponseJson([error |-> handler.error, details |-> e.message, stack |-> e.stack],
                     [status |-> 500])

\* the handler's steps up to its first await of the backend: the body is read
\* (POST) and the axios call is issued, or reading the body throws
proxyReceive(handler, incoming) ==
    /\ proxy.pc = "idle"
    /\ IF handler.method = "POST" /\ incoming.kind = "unparsable"
       THEN proxy' = [pc |-> "done", handler |-> handler, request |-> incoming,
                      calls |-> <<>>, outcome |-> "caught",
                      response |-> catchResponse(handler, incoming.error)]
       ELSE proxy' = [pc |-> "awaiting", handler |-> handler, request |-> incoming,
                      calls |-> <<IF handler.method = "POST"
                                  THEN [method |-> "POST", url |-> handler.url,
                                        data |-> incoming.data]
                                  ELSE [method |-> "GET", url |-> handler.url]>>]
    /\ UNCHANGED editorVars

\* export async function GET() of proxy-template
GET == proxyReceive(ProxyTemplateGET, Parsed("null"))

\* export async function POST(request) of proxy-template, proxy-generate and
\* proxy-rag
POST(handler, incoming) == proxyReceive(handler, incoming)

\* the axios call settles and the handler returns
proxySettled(settlement) ==
    /\ proxy.pc = "awaiting"
    /\ IF settlement.kind = "answer" /\ validateStatus(settlement.status)
       THEN proxy' = [proxy EXCEPT !.pc = "done"] @@
                     [outcome |-> "returned", settled |-> settlement,
                      response |-> okResponse(settlement)]
       ELSE proxy' = [proxy EXCEPT !.pc = "done"] @@
                     [outcome |-> "caught", settled |-> settlement,
                      response |-> catchResponse(proxy.handler, axiosError(settlement))]
    /\ UNCHANGED editorVars

-----------------------------------------------------------------------------
(* The component as a whole *)

ProxyIdle == [pc |-> "idle"]

Init ==
    /\ InitEditor
    /\ proxy = ProxyIdle

Next ==
    \/ useEffect
    \/ \E reply \in FetchReplies : fetchTemplates(reply)
    \/ \E i \in 1..Len(templates) : handleTemplateChange(i)
    \/ \E field \in EditedFields :
          /\ editedTemplate # Null
          /\ \E index \in DOMAIN editedTemplate.sections :
             \E value \in FieldValues(editedTemplate.sections[index], field) :
                handleSectionChange(index, field, value)
    \/ \E field \in {"name", "description"} :
          \E value \in TemplateFieldValues(field) : setEditedTemplateField(field, value)
    \/ \E now \in {clock, clock + 1} : addSection(now)
    \/ /\ editedTemplate # Null
       /\ \E index \in DOMAIN editedTemplate.sections : deleteSection(index)
    \/ duplicateTemplate
    \/ handleSave
    \/ /\ savePc.stage = "request"
       /\ \E reply \in savedReplies(savePc.request) \cup Failures :
             handleSaveSettled(reply)
    \/ \E reply \in FetchReplies : handleSaveRefetched(reply)
    \/ handleDelete
    \/ \E reply \in DeleteReplies : handleDeleteSettled(reply)
    \/ \E reply \in FetchReplies : handleDeleteRefetched(reply)
    \/ \E open \in BOOLEAN : setShowCreateDialog(open)
    \/ \E value \in NameInputs : setNewTemplateName(value)
    \/ \E value \in DescriptionInputs : setNewTemplateDescription(value)
    \/ \E value \in BaseTemplateOptions : setBaseTemplateId(value)
    \/ handleCreateTemplate

Spec == Init /\ [][Next]_vars

\* the mount effect runs, every request issued is answered or fails, and every
\* continuation after an await runs
Fairness ==
    /\ WF_vars(useEffect)
    /\ WF_vars(\E reply \in FetchReplies : fetchTemplates(reply))
    /\ WF_vars(/\ savePc.stage = "request"
               /\ \E reply \in savedReplies(savePc.request) \cup Failures :
                      handleSaveSettled(reply))
    /\ WF_vars(\E reply \in FetchReplies : handleSaveRefetched(reply))
    /\ WF_vars(\E reply \in DeleteReplies : handleDeleteSettled(reply))
    /\ WF_vars(\E reply \in FetchReplies : handleDeleteRefetched(reply))

\* the component with a backend that settles every request
SpecLive == Spec /\ Fairness

\* the proxy route handlers, each serving one request
NextProxy ==
    \/ GET
    \/ \E handler \in PostHandlers, incoming \in IncomingBodies : POST(handler, incoming)
    \/ \E settlement \in BackendSettlements : proxySettled(settlement)

SpecProxy == Init /\ [][NextProxy]_vars

-----------------------------------------------------------------------------
(* Properties of the editor *)

\* the flags as the rendered form reads them
FlaggedCustom(t) == "is_custom" \in DOMAIN t /\ t.is_custom
FlaggedRequired(s) == "required" \in DOMAIN s /\ s.required
HasCustomId(t) == "id" \in DOMAIN t /\ startsWith(t.id, "custom_")

\* the step is one user event handled by `op`
Handled(op) == nEvents' = nEvents + 1 /\ lastOp' = op

\* the step is an edit of the buffer: a field edit, addSection or deleteSection
EditStep ==
    \/ Handled("handleSectionChange")
    \/ Handled("setEditedTemplate")
    \/ Handled("addSection")
    \/ Handled("deleteSection")

\* the component state other than the three template cells and the toast
OtherCells ==
    <<isLoading, isSaving, isDeleting, error, success, showCreateDialog, newTemplateName,
      newTemplateDescription, baseTemplateId, mountPc, savePc, deletePc, clock, proxy>>

\* the order values of the sections are 1, 2, ..., N in list sequence
OrdersAreOneToN(t) ==
    \A i \in DOMAIN t.sections :
        "order" \in DOMAIN t.sections[i] /\ t.sections[i].order = i

ContentOfList(ts) == [i \in DOMAIN ts |-> ContentOf(ts[i])]

\* C1: right after addSection has added a section, or deleteSection has removed
\* one, the order values of the buffer's sections are 1, 2, ..., N in list
\* sequence.
C1_OrdersRenumbered ==
    (\/ lastOp = "addSection" /\ toast = ToastSectionAdded
     \/ lastOp = "deleteSection" /\ toast = ToastSectionDeleted)
    => OrdersAreOneToN(editedTemplate)

\* C2: deleteSection(index) on a custom buffer whose section at index is
\* required leaves the buffer (and so its section list) as it is, hands the
\* destructive rejection toast to toast(), and changes no other cell of the state.
C2_RequiredSectionKept ==
    [][\A index \in 1..Len(IF editedTemplate = Null THEN <<>> ELSE editedTemplate.sections) :
          (/\ deleteSection(index)
           /\ FlaggedCustom(editedTemplate)
           /\ FlaggedRequired(editedTemplate.sections[index]))
          => /\ editedTemplate' = editedTemplate
             /\ toast' = ToastRequiredSection
             /\ toast'.variant = "destructive"
             /\ templates' = templates
             /\ activeTemplate' = activeTemplate
             /\ OtherCells' = OtherCells]_vars

\* deleteSection has just refused to delete a required section of a custom buffer
C2_Witness ==
    /\ lastOp = "deleteSection"
    /\ toast = ToastRequiredSection
    /\ FlaggedCustom(editedTemplate)
    /\ \E i \in DOMAIN editedTemplate.sections : FlaggedRequired(editedTemplate.sections[i])

\* C3: the request handleSave issues is decided by the buffer's id alone: PUT
\* /templates/{id} when the id starts with "custom_", POST /templates when the
\* id is absent, empty or has another start; the is_custom flag plays no part.
C3_SaveDecidedById ==
    [][Handled("handleSave") =>
          /\ savePc'.stage = "request"
          /\ IF HasCustomId(editedTemplate)
             THEN /\ savePc'.request.method = "PUT"
                  /\ savePc'.request.url = TemplatesUrl \o "/" \o editedTemplate.id
             ELSE /\ savePc'.request.method = "POST"
                  /\ savePc'.request.url = TemplatesUrl]_vars

\* handleSave has just issued a POST for a buffer whose is_custom flag is true
C3_Witness ==
    /\ lastOp = "handleSave"
    /\ FlaggedCustom(editedTemplate)
    /\ ~HasCustomId(editedTemplate)
    /\ savePc.request.method = "POST"

SectionKeys ==
    {"name", "description", "required", "default_enabled", "order", "rag_query_template",
     "prompt_template"}

\* the default validatedSections gives to a key the section does not define
DefaultOf(key) ==
    CASE key = "name" -> [value |-> "Section sans nom"]
      [] key = "description" -> [value |-> "Description de la section"]
      [] key = "required" -> [value |-> FALSE]
      [] key = "default_enabled" -> [value |-> TRUE]
      [] key = "order" -> [value |-> 0]
      [] key = "rag_query_template" ->
             [value |-> "informations sur {product_name} dans la catégorie {product_category}"]
      [] key = "prompt_template" ->
             [value |-> "Générer une section sur {product_name} en utilisant les informations suivantes: {client_data_context}"]

\* C4: handleSave always gets as far as issuing its request, and every section of
\* the request body defines name, description, required, default_enabled, order,
\* rag_query_template and prompt_template, a key the buffer's section does not
\* define holding its fixed default.
C4_SectionsNormalized ==
    [][Handled("handleSave") =>
          /\ savePc'.stage = "request"
          /\ DOMAIN savePc'.request.body.sections = DOMAIN editedTemplate.sections
          /\ \A i \in DOMAIN editedTemplate.sections :
                /\ SectionKeys \subseteq DOMAIN savePc'.request.body.sections[i]
                /\ \A key \in SectionKeys \ DOMAIN editedTemplate.sections[i] :
                      [value |-> savePc'.request.body.sections[i][key]] = DefaultOf(key)]_vars

\* handleSave has just issued a request for a buffer with a section that defines
\* none of the seven keys
C4_Witness ==
    /\ lastOp = "handleSave"
    /\ \E i \in DOMAIN editedTemplate.sections :
          /\ SectionKeys \cap DOMAIN editedTemplate.sections[i] = {}
          /\ savePc.request.body.sections[i].name = "Section sans nom"

\* C5, as the claim states it: while the buffer holds a template whose id does
\* not start with "custom_", no field edit, addSection or deleteSection changes it.
C5_NoPrefixBufferKept ==
    [][(editedTemplate # Null /\ ~HasCustomId(editedTemplate) /\ EditStep)
          => editedTemplate' = editedTemplate]_vars

\* C5, amended: while the buffer holds a template whose is_custom flag is false
\* or absent, no field edit, addSection or deleteSection changes it.
C5_NonCustomBufferKept ==
    [][(editedTemplate # Null /\ ~FlaggedCustom(editedTemplate) /\ EditStep)
          => editedTemplate' = editedTemplate]_vars

\* addSection or deleteSection has just run on a buffer that is not custom
C5_Witness ==
    /\ lastOp \in {"addSection", "deleteSection"}
    /\ editedTemplate # Null
    /\ ~FlaggedCustom(editedTemplate)

\* C6: the duplicate of a buffer that is not custom has id "new_template",
\* is_custom true, the name "Copie de " + the original name and sections with the
\* content of the original's in objects the templates list does not hold; and no
\* edit of the buffer changes a template of the list.
C6_DuplicateIsDeepCopy ==
    [][/\ Handled("duplicateTemplate") =>
             /\ ~FlaggedCustom(editedTemplate)
             /\ editedTemplate'.id = "new_template"
             /\ editedTemplate'.is_custom = TRUE
             /\ editedTemplate'.name = "Copie de " \o editedTemplate.name
             /\ ContentOfSections(editedTemplate'.sections)
                    = ContentOfSections(editedTemplate.sections)
             /\ RefsOf(editedTemplate') \cap RefsOfList(templates') = {}
             /\ ContentOfList(templates') = ContentOfList(templates)
       /\ EditStep => ContentOfList(templates') = ContentOfList(templates)]_vars

\* deleteSection has just removed a section from a duplicate
C6_Witness ==
    /\ lastOp = "deleteSection"
    /\ toast = ToastSectionDeleted
    /\ editedTemplate.id = "new_template"
    /\ startsWith(editedTemplate.name, "Copie de ")

\* C7: a field edit, addSection or deleteSection changes neither the templates
\* list nor any field of activeTemplate.
C7_EditsChangeOnlyBuffer ==
    [][EditStep => /\ ContentOfList(templates') = ContentOfList(templates)
                   /\ ContentOf(activeTemplate') = ContentOf(activeTemplate)]_vars

\* C8: when the fetch of the mount effect is answered with an empty list (no
\* template is selected then), fetchTemplates ends with templates = [],
\* activeTemplate = null, editedTemplate = null, isLoading = false and no error.
C8_EmptyListLoaded ==
    [][(mountPc = "fetching" /\ activeTemplate = Null /\ fetchTemplates(Ok(<<>>)))
          => /\ templates' = <<>>
             /\ activeTemplate' = Null
             /\ editedTemplate' = Null
             /\ isLoading' = FALSE
             /\ error' = Null
             /\ mountPc' = "done"]_vars

\* the mount effect's fetchTemplates has ended on an empty list
C8_Witness ==
    /\ lastOp = "fetchTemplates"
    /\ templates = <<>>
    /\ error = Null
    /\ ~isLoading

\* a template without its is_custom key and without object identities
WithoutFlag(t) ==
    LET c == ContentOf(t) IN [k \in (DOMAIN c) \ {"is_custom"} |-> c[k]]

\* the step ends a handleSave invocation after its re-fetch
SaveCompleted ==
    /\ savePc.stage = "refetch"
    /\ lastOp' \in {"handleSaveRefetched", "handleSaveRefetched over a changed buffer"}

\* C11: a 2xx answer to the request of handleSave makes the handler re-fetch the
\* list; when the re-fetch has ended activeTemplate is the saved result with
\* is_custom true exactly when its id starts with "custom_", editedTemplate has
\* the same content in other objects, the success message is set and isSaving is
\* false.
C11_SaveSuccessLoadsSaved ==
    [][/\ \A reply \in IF savePc.stage = "request" THEN savedReplies(savePc.request) ELSE {} :
             handleSaveSettled(reply) =>
                 /\ savePc'.stage = "refetch"
                 /\ WithoutFlag(savePc'.savedTemplate) = WithoutFlag(reply.data)
                 /\ isLoading'
                 /\ isSaving'
       /\ SaveCompleted =>
             /\ WithoutFlag(activeTemplate') = WithoutFlag(savePc.savedTemplate)
             /\ FlaggedCustom(activeTemplate') <=> HasCustomId(activeTemplate')
             /\ ContentOf(editedTemplate') = ContentOf(activeTemplate')
             /\ RefsOf(editedTemplate') \cap RefsOf(activeTemplate') = {}
             /\ success' = Msg("Template sauvegardé avec succès")
             /\ toast' = ToastSaved
             /\ isSaving' = FALSE
             /\ savePc' = Idle]_vars

\* a handleSave invocation has just ended after a 2xx answer that assigned an id
C11_Witness ==
    /\ lastOp = "handleSaveRefetched"
    /\ HasCustomId(activeTemplate)
    /\ FlaggedCustom(activeTemplate)
    /\ success = Msg("Template sauvegardé avec succès")
    /\ activeTemplate.sections # <<>>

\* C12: when the request of handleSave fails (no answer, or an answer outside
\* 2xx), the handler changes neither the templates list nor activeTemplate nor
\* editedTemplate (nor did it when it started), issues no re-fetch, sets the
\* error banner, leaves success as it is (null, as the start of the save set it,
\* unless a delete has ended meanwhile) and sets isSaving to false.
C12_SaveFailureKeepsState ==
    [][/\ Handled("handleSave") =>
             /\ UNCHANGED <<templates, activeTemplate, editedTemplate>>
             /\ success' = Null
       /\ \A reply \in Failures :
             handleSaveSettled(reply) =>
                 /\ UNCHANGED <<templates, activeTemplate, editedTemplate, success, isLoading>>
                 /\ savePc' = Idle
                 /\ error' # Null
                 /\ startsWith(error'.message, "Erreur lors de la sauvegarde: ")
                 /\ toast' = ToastSaveError
                 /\ isSaving' = FALSE]_vars

\* the request of a handleSave invocation has just failed
C12_Witness ==
    /\ lastOp = "handleSaveSettled"
    /\ toast = ToastSaveError
    /\ error # Null
    /\ success = Null
    /\ ~isSaving
    /\ savePc = Idle

\* C13: a 2xx answer to the DELETE of handleDelete makes the handler re-fetch the
\* list, and when the re-fetch has ended activeTemplate and editedTemplate are
\* null, whatever list the re-fetch brought.
C13_DeleteSuccessClearsSelection ==
    [][/\ \A reply \in DeleteReplies :
             (handleDeleteSettled(reply) /\ reply.kind = "ok") =>
                 /\ deletePc'.stage = "refetch"
                 /\ isLoading'
       /\ \A reply \in FetchReplies :
             handleDeleteRefetched(reply) =>
                 /\ activeTemplate' = Null
                 /\ editedTemplate' = Null
                 /\ reply.kind = "ok" => ContentOfList(templates') = reply.data
                 /\ isDeleting' = FALSE
                 /\ success' = Msg("Template supprimé avec succès")]_vars

\* a handleDelete invocation has just ended with a list that is not empty
C13_Witness ==
    /\ lastOp = "handleDeleteRefetched"
    /\ Len(templates) > 0
    /\ activeTemplate = Null
    /\ editedTemplate = Null

\* C14: handleDelete on an active template that is not custom changes nothing
\* and issues no request; on a custom one it issues DELETE /templates/{id}; and
\* when that request fails the handler leaves templates, activeTemplate and
\* editedTemplate as they are, sets the error banner and sets isDeleting to false.
C14_DeleteOnlyCustom ==
    [][/\ Handled("handleDelete") =>
             IF FlaggedCustom(activeTemplate)
             THEN /\ deletePc'.stage = "request"
                  /\ deletePc'.request.method = "DELETE"
                  /\ deletePc'.request.url = TemplatesUrl \o "/" \o activeTemplate.id
                  /\ UNCHANGED <<templates, activeTemplate, editedTemplate>>
             ELSE /\ deletePc' = Idle
                  /\ UNCHANGED <<templates, activeTemplate, editedTemplate>>
                  /\ OtherCells' = OtherCells
       /\ \A reply \in Failures :
             handleDeleteSettled(reply) =>
                 /\ UNCHANGED <<templates, activeTemplate, editedTemplate, isLoading>>
                 /\ deletePc' = Idle
                 /\ error' # Null
                 /\ startsWith(error'.message, "Erreur lors de la suppression: ")
                 /\ toast' = ToastDeleteError
                 /\ isDeleting' = FALSE]_vars

\* the DELETE request of a handleDelete invocation has just failed
C14_Witness ==
    /\ lastOp = "handleDeleteSettled"
    /\ toast = ToastDeleteError
    /\ activeTemplate # Null
    /\ FlaggedCustom(activeTemplate)
    /\ ~isDeleting

\* the ids of the sections of t are pairwise distinct
IdsDistinct(t) ==
    \A i, j \in 1..Len(t.sections) :
        t.sections[i].id = t.sections[j].id => i = j

\* C15: addSection changes nothing unless the buffer is custom; on a custom
\* buffer it appends exactly one section at the end, leaving the sections before
\* it as they were, with required false, default_enabled true and a generated
\* id, and the ids of the buffer's sections stay pairwise distinct, also when two
\* calls read the same clock value.
C15_AddSectionAppendsUnique ==
    [][Handled("addSection") =>
          IF FlaggedCustom(editedTemplate)
          THEN LET before == ContentOf(editedTemplate).sections
                   after == ContentOf(editedTemplate').sections
               IN /\ Len(after) = Len(before) + 1
                  /\ SubSeq(after, 1, Len(before)) = before
                  /\ after[Len(after)].required = FALSE
                  /\ after[Len(after)].default_enabled = TRUE
                  /\ startsWith(after[Len(after)].id, "section_")
                  /\ IdsDistinct(editedTemplate) => IdsDistinct(editedTemplate')
          ELSE UNCHANGED <<templates, activeTemplate, editedTemplate>>]_vars

\* s holds a character that is not a space
NonBlank(s) == \E i \in 1..Len(s) : SubSeq(s, i, i) # " "

\* the step starts no request and ends none
NoRequest ==
    UNCHANGED <<templates, mountPc, savePc, deletePc, isLoading, isSaving, isDeleting, proxy>>

\* the base template of the dialog: the one whose id is baseTemplateId, or the
\* first of the list
BaseOfDialog ==
    IF \E i \in DOMAIN templates : Has(templates[i], "id") /\ templates[i].id = baseTemplateId
    THEN templates[CHOOSE i \in DOMAIN templates :
                      /\ Has(templates[i], "id") /\ templates[i].id = baseTemplateId
                      /\ \A j \in 1..(i - 1) :
                             ~(Has(templates[j], "id") /\ templates[j].id = baseTemplateId)]
    ELSE templates[1]

\* the step loads into the editor the template the dialog describes
CreatedTemplateLoaded ==
    /\ templates # <<>>
    /\ editedTemplate' # Null
    /\ activeTemplate' # Null
    /\ ContentOf(activeTemplate') = ContentOf(editedTemplate')
    /\ editedTemplate'.id = "new_template"
    /\ editedTemplate'.is_custom = TRUE
    /\ editedTemplate'.is_default = FALSE
    /\ editedTemplate'.name = newTemplateName
    /\ editedTemplate'.description =
           IF newTemplateDescription # "" THEN newTemplateDescription
           ELSE "Template personnalisé basé sur " \o BaseOfDialog.name
    /\ ContentOf(editedTemplate').sections = ContentOf(BaseOfDialog).sections
    /\ RefsOf(editedTemplate') \cap RefsOfList(templates') = {}

\* the step loads nothing and reports an error, the dialog staying open
CreationFailed ==
    /\ UNCHANGED <<activeTemplate, editedTemplate, showCreateDialog, newTemplateName,
                   newTemplateDescription, baseTemplateId>>
    /\ error' # Null
    /\ startsWith(error'.message, "Erreur lors de la création du template: ")
    /\ toast' = ToastCreateError

\* C16 as stated: handleCreateTemplate with a non-blank name starts no request
\* and loads into the editor a template with id "new_template", is_custom true,
\* is_default false, the name given, the description given or the generated one,
\* and a deep copy of the sections of the base template (the one whose id is
\* baseTemplateId, else the first of the list); the templates list is unchanged.
C16_CreateLoadsTemplate ==
    [][(Handled("handleCreateTemplate") /\ NonBlank(newTemplateName)) =>
          (NoRequest /\ CreatedTemplateLoaded)]_vars

\* C16 amended: the same when the templates list is not empty; with an empty
\* list the handler starts no request, loads nothing, leaves the dialog open and
\* sets the error banner and a toast.
C16_CreateLoadsTemplateFromList ==
    [][(Handled("handleCreateTemplate") /\ NonBlank(newTemplateName)) =>
          /\ NoRequest
          /\ IF templates # <<>> THEN CreatedTemplateLoaded ELSE CreationFailed]_vars

\* a template has just been created from the dialog on a base chosen in the
\* select
C16_Witness ==
    /\ lastOp = "handleCreateTemplate"
    /\ editedTemplate # Null
    /\ editedTemplate.id = "new_template"
    /\ editedTemplate.name = "Fiche"
    /\ \E i \in DOMAIN templates :
          /\ i > 1
          /\ Has(templates[i], "sections") /\ Has(templates[1], "sections")
          /\ ContentOf(templates[i]).sections = ContentOf(editedTemplate).sections
          /\ ContentOf(templates[1]).sections # ContentOf(editedTemplate).sections
    /\ ~showCreateDialog

\* C17: handleCreateTemplate with a blank or whitespace-only name starts no
\* request and only emits a toast: templates, activeTemplate, editedTemplate, the
\* error banner, the dialog-open flag and the dialog's inputs are unchanged.
C17_BlankNameRejected ==
    [][(Handled("handleCreateTemplate") /\ ~NonBlank(newTemplateName)) =>
          /\ toast' = ToastNameRequired
          /\ UNCHANGED <<templates, activeTemplate, editedTemplate, error, showCreateDialog,
                         newTemplateName, newTemplateDescription, baseTemplateId>>
          /\ OtherCells' = OtherCells]_vars

\* a whitespace-only name has just been rejected
C17_Witness ==
    /\ lastOp = "handleCreateTemplate"
    /\ toast = ToastNameRequired
    /\ newTemplateName = " "
    /\ showCreateDialog

\* the id of t is the placeholder of templates not saved yet
HasPlaceholderId(t) == "id" \in DOMAIN t /\ t.id = "new_template"

\* C18 as stated: whenever the edit buffer or the active template is not null,
\* its is_custom flag is true exactly when its id starts with "custom_".
C18_FlagFollowsId ==
    /\ activeTemplate # Null => (FlaggedCustom(activeTemplate) <=> HasCustomId(activeTemplate))
    /\ editedTemplate # Null => (FlaggedCustom(editedTemplate) <=> HasCustomId(editedTemplate))

\* C18 amended: whenever the edit buffer or the active template is not null, it
\* either carries the placeholder id "new_template" with is_custom true (a
\* duplicate or a template created from the dialog, not saved yet), or its
\* is_custom flag is true exactly when its id starts with "custom_" (a fetched
\* template, the result of a completed save).
C18_FlagFollowsIdOnceSaved ==
    /\ activeTemplate # Null =>
          IF HasPlaceholderId(activeTemplate) THEN FlaggedCustom(activeTemplate)
          ELSE FlaggedCustom(activeTemplate) <=> HasCustomId(activeTemplate)
    /\ editedTemplate # Null =>
          IF HasPlaceholderId(editedTemplate) THEN FlaggedCustom(editedTemplate)
          ELSE FlaggedCustom(editedTemplate) <=> HasCustomId(editedTemplate)

\* a template made under the placeholder id has been saved and carries the id
\* the backend assigned
C18_Witness ==
    /\ lastOp = "handleSaveRefetched"
    /\ editedTemplate # Null
    /\ editedTemplate.id = "custom_43"
    /\ FlaggedCustom(editedTemplate)
    /\ FlaggedCustom(activeTemplate)

\* C19: a handleSave invocation starts only when none is in flight and a
\* handleDelete invocation only when none is in flight, isSaving (isDeleting)
\* being true for as long as one is; a save and a delete of one template can be
\* in flight together (the witness).
C19_OneSaveOneDeleteInFlight ==
    [][/\ savePc # Idle => isSaving
       /\ deletePc # Idle => isDeleting
       /\ Handled("handleSave") => (savePc = Idle /\ ~isSaving /\ deletePc' = deletePc)
       /\ Handled("handleDelete") => (deletePc = Idle /\ ~isDeleting /\ savePc' = savePc)]_vars

\* the PUT of a save and the DELETE of a delete of the same template are both
\* in flight
C19_Witness ==
    /\ savePc.stage = "request"
    /\ deletePc.stage = "request"
    /\ savePc.request.method = "PUT"
    /\ savePc.request.url = deletePc.request.url
    /\ isSaving /\ isDeleting

\* C20: the body of the request of handleSave is built from the buffer as it is
\* when handleSave is called and stays the same while the save is in flight,
\* whatever the user selects or edits meanwhile; and when the save has succeeded
\* after such a selection or edit, activeTemplate and editedTemplate are the
\* saved result, which carries the name and the number of sections of the body
\* sent, not those of the buffer as the user left it.
C20_SaveOverwritesChangesInFlight ==
    [][/\ Handled("handleSave") =>
             /\ savePc'.stage = "request"
             /\ \A k \in {"name", "description"} \cap DOMAIN editedTemplate :
                    savePc'.request.body[k] = editedTemplate[k]
             /\ Len(savePc'.request.body.sections) = Len(editedTemplate.sections)
       /\ (savePc.stage = "request" /\ savePc' # Idle) => savePc'.request = savePc.request
       /\ (savePc.stage = "refetch" /\ lastOp' = "handleSaveRefetched over a changed buffer") =>
             /\ WithoutFlag(activeTemplate') = WithoutFlag(savePc.savedTemplate)
             /\ ContentOf(editedTemplate') = ContentOf(activeTemplate')
             /\ \A k \in {"name", "description"} \cap DOMAIN savePc.request.body :
                    activeTemplate'[k] = savePc.request.body[k]
             /\ Len(activeTemplate'.sections) = Len(savePc.request.body.sections)]_vars

\* a save has succeeded after the user renamed the buffer while it was in
\* flight, and the name typed meanwhile is gone
C20_Witness ==
    /\ lastOp = "handleSaveRefetched over a changed buffer"
    /\ nEvents >= 3
    /\ editedTemplate # Null
    /\ activeTemplate # Null
    /\ ContentOf(editedTemplate) = ContentOf(activeTemplate)
    /\ success = Msg("Template sauvegardé avec succès")

\* C21: a save of a buffer under the placeholder id (a duplicate, a template
\* created from the dialog) issues POST /templates; when a save has succeeded
\* with an id starting with "custom_", the editor holds the template under that
\* id, no edit of the buffer changes the id, and every save of a buffer under
\* such an id issues PUT /templates/{id}.
C21_CreateOnceThenUpdate ==
    [][/\ (Handled("handleSave") /\ HasPlaceholderId(editedTemplate)) =>
             /\ savePc'.request.method = "POST"
             /\ savePc'.request.url = TemplatesUrl
       /\ (SaveCompleted /\ HasCustomId(savePc.savedTemplate)) =>
             /\ activeTemplate'.id = savePc.savedTemplate.id
             /\ editedTemplate'.id = savePc.savedTemplate.id
       /\ (EditStep /\ editedTemplate # Null /\ "id" \in DOMAIN editedTemplate) =>
             /\ editedTemplate' # Null
             /\ "id" \in DOMAIN editedTemplate'
             /\ editedTemplate'.id = editedTemplate.id
       /\ (Handled("handleSave") /\ HasCustomId(editedTemplate)) =>
             /\ savePc'.request.method = "PUT"
             /\ savePc'.request.url = TemplatesUrl \o "/" \o editedTemplate.id
             /\ \A reply \in savedReplies(savePc'.request) :
                    reply.data.id = editedTemplate.id]_vars

\* a duplicate was saved, got the id the backend assigned, and is being saved
\* again by a PUT to that id
C21_Witness ==
    /\ savePc.stage = "request"
    /\ savePc.request.method = "PUT"
    /\ savePc.request.url = TemplatesUrl \o "/custom_43"
    /\ editedTemplate # Null
    /\ editedTemplate.id = "custom_43"
    /\ startsWith(editedTemplate.name, "Copie de ")

\* the buffer shares no section object with activeTemplate or the templates list
BufferApart ==
    RefsOf(editedTemplate) \cap (RefsOf(activeTemplate) \cup RefsOfList(templates)) = {}

\* C22: handleTemplateChange(t) makes activeTemplate the entry t of the list and
\* the buffer a copy of t sharing no object with it, whatever the buffer held
\* before; it shows no toast and changes neither the templates list nor any
\* other cell; and an edit of a buffer that shares no object with the list and
\* the active template changes neither of them.
C22_SelectionReplacesBuffer ==
    [][/\ \A i \in DOMAIN templates :
             handleTemplateChange(i) =>
                 /\ ContentOf(activeTemplate') = ContentOf(templates[i])
                 /\ RefSeqOf(activeTemplate') = RefSeqOf(templates'[i])
                 /\ ContentOf(editedTemplate') = ContentOf(templates[i])
                 /\ BufferApart'
                 /\ ContentOfList(templates') = ContentOfList(templates)
                 /\ toast' = Null
                 /\ OtherCells' = OtherCells
       /\ (EditStep /\ BufferApart) =>
             /\ BufferApart'
             /\ ContentOf(activeTemplate') = ContentOf(activeTemplate)
             /\ ContentOfList(templates') = ContentOfList(templates)]_vars

\* the user selected the stored custom template and removed a section of the
\* buffer: the buffer differs from the selected template, which is as fetched
C22_Witness ==
    /\ lastOp = "deleteSection"
    /\ toast = ToastSectionDeleted
    /\ HasCustomId(activeTemplate)
    /\ BufferApart
    /\ ContentOf(editedTemplate) # ContentOf(activeTemplate)
    /\ \E i \in DOMAIN templates : ContentOf(templates[i]) = ContentOf(activeTemplate)

\* C23: a fetchTemplates whose request fails sets the error banner, resets
\* isLoading and leaves templates, activeTemplate and editedTemplate as they
\* are, so that after a failed fetch of the mount effect the list is empty and
\* nothing is selected; one that succeeds with a list that is not empty while
\* nothing is selected makes activeTemplate its first entry and the buffer a
\* copy of it in other objects; and one called with a template selected (the
\* re-fetch of handleSave and of handleDelete) replaces the list only.
C23_FetchOutcomes ==
    [][/\ \A reply \in FetchReplies :
             fetchTemplates(reply) =>
                 /\ activeTemplate = Null
                 /\ isLoading' = FALSE
                 /\ IF reply.kind # "ok"
                    THEN /\ error' # Null
                         /\ startsWith(error'.message, "Erreur lors du chargement des templates: ")
                         /\ toast' = ToastLoadError
                         /\ templates' = <<>>
                         /\ activeTemplate' = Null
                         /\ editedTemplate' = Null
                    ELSE /\ ContentOfList(templates') = reply.data
                         /\ error' = Null
                         /\ reply.data # <<>> =>
                               /\ ContentOf(activeTemplate') = reply.data[1]
                               /\ RefSeqOf(activeTemplate') = RefSeqOf(templates'[1])
                               /\ ContentOf(editedTemplate') = reply.data[1]
                               /\ BufferApart'
       /\ \A reply \in FetchReplies :
             handleDeleteRefetched(reply) =>
                 /\ isLoading' = FALSE
                 /\ IF reply.kind # "ok"
                    THEN /\ error' # Null
                         /\ startsWith(error'.message, "Erreur lors du chargement des templates: ")
                         /\ ContentOfList(templates') = ContentOfList(templates)
                    ELSE ContentOfList(templates') = reply.data
       /\ \A reply \in FetchReplies :
             (savePc.stage = "refetch" \/ deletePc.stage = "refetch") =>
                 LET st == fetchTemplatesSettled(FetchState, reply, activeTemplate = Null)
                 IN /\ reply.kind # "ok" =>
                          /\ st.templates = templates
                          /\ st.activeTemplate = activeTemplate
                          /\ st.editedTemplate = editedTemplate
                          /\ st.error # Null
                    /\ activeTemplate # Null =>
                          /\ st.activeTemplate = activeTemplate
                          /\ st.editedTemplate = editedTemplate]_vars

\* the re-fetch of a delete has just failed: the list is the one fetched before
\* and the error banner is set
C23_Witness ==
    /\ lastOp = "handleDeleteRefetched"
    /\ templates # <<>>
    /\ error # Null
    /\ startsWith(error.message, "Erreur lors du chargement des templates: ")
    /\ ~isLoading

\* C24: with a backend that answers or fails every request, none of isLoading,
\* isSaving and isDeleting stays true forever: at every moment there is a later
\* one at which the flag is false and the fetchTemplates of the mount effect
\* (the handleSave, the handleDelete) that was in flight has come to its end.
C24_BusyFlagsReset ==
    /\ []<>(~isLoading /\ mountPc = "done")
    /\ []<>(~isSaving /\ savePc = Idle)
    /\ []<>(~isDeleting /\ deletePc = Idle)

\* a save has come to its end although its re-fetch failed: no busy flag is set
\* and nothing is in flight
C24_Witness ==
    /\ lastOp = "handleSaveRefetched"
    /\ error # Null
    /\ startsWith(error.message, "Erreur lors du chargement des templates: ")
    /\ ~isSaving /\ ~isDeleting /\ ~isLoading
    /\ savePc = Idle /\ deletePc = Idle /\ mountPc = "done"

-----------------------------------------------------------------------------
(* Properties of the proxy route handlers *)

\* the handler served a request whose body request.json() could not parse
BodyUnparsable == proxy.handler.method = "POST" /\ proxy.request.kind = "unparsable"

\* the axios call of the handler was answered with a 2xx status
BackendSucceeded ==
    /\ "settled" \in DOMAIN proxy
    /\ proxy.settled.kind = "answer"
    /\ proxy.settled.status \in 200..299

\* the axios call of the handler failed: no answer, or a status outside 2xx
BackendFailed == "settled" \in DOMAIN proxy /\ ~BackendSucceeded

\* the message of the error behind a failed invocation
UnderlyingMessage ==
    IF BodyUnparsable THEN proxy.request.error.message
    ELSE IF proxy.settled.kind = "transport" THEN proxy.settled.message
    ELSE "Request failed with status code " \o ToString(proxy.settled.status)

\* C9: a handler whose request body cannot be parsed, whose backend call fails in
\* transport or whose backend answers outside 2xx ends by returning status 500
\* with the body {error, details, stack}, details being the message of the
\* underlying error; and with an unparsable body it has issued no backend call.
C9_FailuresBecome500 ==
    (proxy.pc # "idle" /\ (BodyUnparsable \/ BackendFailed))
    => /\ proxy.pc = "done"
       /\ proxy.response.status = 500
       /\ DOMAIN proxy.response.body = {"error", "details", "stack"}
       /\ proxy.response.body.error = proxy.handler.error
       /\ proxy.response.body.details = UnderlyingMessage
       /\ BodyUnparsable => proxy.calls = <<>>

\* a POST handler has answered a request whose body it could not parse
C9_Witness ==
    /\ proxy.pc = "done"
    /\ BodyUnparsable
    /\ proxy.response.status = 500
    /\ proxy.calls = <<>>

\* C10, as the claim states it: after a 2xx answer of the backend the handler
\* has issued exactly one backend call and returns the backend's body with the
\* backend's status.
C10_BackendStatusReturned ==
    (proxy.pc # "idle" /\ BackendSucceeded)
    => /\ proxy.pc = "done"
       /\ Len(proxy.calls) = 1
       /\ proxy.response.body = proxy.settled.data
       /\ proxy.response.status = proxy.settled.status

\* C10, amended: after a 2xx answer of the backend the handler has issued
\* exactly one backend call and returns the backend's body with status 200.
C10_BackendBodyReturned ==
    (proxy.pc # "idle" /\ BackendSucceeded)
    => /\ proxy.pc = "done"
       /\ Len(proxy.calls) = 1
       /\ proxy.calls[1].url = proxy.handler.url
       /\ proxy.calls[1].method = proxy.handler.method
       /\ proxy.response.body = proxy.settled.data
       /\ proxy.response.status = 200

\* a handler has returned the body of a backend answer whose status is 201
C10_Witness ==
    /\ proxy.pc = "done"
    /\ BackendSucceeded
    /\ proxy.settled.status = 201
    /\ proxy.response.status = 200

====
